---------------------------- MODULE Spec2Model ----------------------------
(***************************************************************************)
(* State-machine model of source/rlgl.h (raylib rlgl back end for the      *)
(* PICA200): the texture registry (a singly linked list of ids), the       *)
(* matrix stack, and the immediate-mode attribute assembler.               *)
(*                                                                         *)
(* The subsystems share little state, so each has its own next-state       *)
(* relation and specification (SpecReg, SpecTex, SpecSwz, SpecMat,         *)
(* SpecCompose, SpecStack, SpecAttr, SpecVerts, SpecDepth, SpecDraw);      *)
(* Spec is their interleaving.                                             *)
(***************************************************************************)
EXTENDS Integers, Sequences, FiniteSets, TLC

\* ------------------------------------------------------------------ bounds
\* Longest registry list an Allocate is still issued on.
MaxTex == 4
\* Largest id handed to Remove / Lookup by the environment.
MaxId == 5
\* Number of matrix edits (rlLoadIdentity .. rlOrthoTilt) issued in one run.
MaxEdits == 1
\* Deepest Push/Pop nesting explored together with matrix edits (SpecMat).
MaxDepth == 2
\* Matrix edits issued in one run on one matrix (SpecCompose).
MaxCompose == 4
\* Deepest Push nesting explored with the mode changed at any time (SpecMode).
MaxNest == 1
\* Positions submitted in one run of RL_QUADS brackets (SpecQuads).
MaxQuadVerts == 7
\* Setter calls issued in one run (SpecAttr).
MaxCalls == 3
\* Positions submitted in one run (SpecVerts).
MaxVerts == 4
\* rlBegin/rlEnd brackets issued in one run.
MaxBrackets == 2

\* ------------------------------------------------------- program constants
MAX_MATRIX_STACK_SIZE == 32
RL_MODELVIEW == 5888
RL_PROJECTION == 5889
RL_TEXTURE == 5890
RL_PROJECTION_BOTTOM == 5891
RL_LINES == 1
RL_TRIANGLES == 4
RL_QUADS == 7
SHD_POSITION == 0
SHD_TEXCOORD == 1
SHD_COLOR == 2
SHD_NORMAL == 3
SHD_MAX_PARAMS == 4

\* --------------------------------------------------------------- variables
VARIABLES
    \* texture registry (rootTex and the nodes reachable from it)
    rootTex,        \* sequence of nodes [id, tex], head first; <<>> is NULL
    live,           \* history: ids returned by Allocate and not yet passed to Remove
    regCall         \* history: the last registry call, its argument/result and the state before it

regVars == <<rootTex, live, regCall>>

VARIABLES
    \* matrix stack (RLGL.State)
    currentMatrixMode,  \* int: the argument of the last rlMatrixMode, 0 before the first
    currentMatrix,      \* pointer: which of the four matrices *currentMatrix is
    modelview,
    projection,
    projectionBottom,
    transform,
    transformRequired,
    stack,              \* stack[0 .. stackCounter - 1] as a sequence, stack[0] first. The
                        \* slots at and above stackCounter are not kept: no call reads
                        \* one of them before a Push has overwritten it
    stackCounter,
    stackOOB,           \* history: a store went to stack[i] with i outside the array
    overflowLogged,     \* history: the latest rlPushMatrix logged "Matrix stack overflow"
    pushedFrom,         \* history: for each open Push, the value of *currentMatrix just before
                        \* it; emptied, and no longer kept, once modeSetInside holds
    modeSetInside,      \* history: rlMatrixMode was called while a Push was open
    openPush,           \* history: for each open Push, the matrix it copied (from) and
                        \* whether rlMatrixMode was called since (modeSet)
    nEdits,             \* history: number of matrix edits so far
    matCall             \* history: the last matrix-stack call

matVars == <<currentMatrixMode, currentMatrix, modelview, projection, projectionBottom,
             transform, transformRequired, stack, stackCounter, stackOOB,
             overflowLogged, pushedFrom, modeSetInside, openPush, nEdits, matCall>>

VARIABLES
    \* attribute assembler (file-scope statics) and the native immediate-draw sink
    paramMode,
    paramNum,
    paramsUsed,         \* [0 .. SHD_MAX_PARAMS - 1 -> BOOLEAN]
    lastParams,         \* [0 .. SHD_MAX_PARAMS - 1 -> Vector4]
    backupParams,       \* [0 .. SHD_MAX_PARAMS - 1 -> Vector4]
    shaderNumParams,
    currentDepth,       \* in units of 1.0f/20000.0f
    bottom,             \* RLGL.bottom
    uniforms,           \* the matrices last given to C3D_FVUnifMtx4x4, by uniform
    sink,               \* the C3D_ImmSendAttrib calls since the latest C3D_ImmDrawBegin
    inBracket,          \* C3D_ImmDrawBegin called and C3D_ImmDrawEnd not yet
    shadow,             \* history: per slot, the value the client last submitted in this
                        \* bracket, or the value rlBegin documents as its default
    submitted,          \* history: the attribute sets of the vertices the client has completed
    nCalls,             \* history: setter calls so far
    nVerts,             \* history: position submissions in this bracket
    nVertsRun,          \* history: position submissions so far
    nBrackets,          \* history: rlBegin calls
    depthBase,          \* history: currentDepth after the latest rlSetDepth, or at start
    nEnds,              \* history: rlEnd calls since then
    zLog,               \* history: the z values rlVertex2f stored in the bracket before
                        \* the latest one (prev) and in the latest one (cur), and whether
                        \* rlSetDepth was called since the latest rlBegin (set). An
                        \* rlSetDepth empties both, and cur stays empty until the next rlBegin
    attrCall            \* history: the last assembler call

attrVars == <<paramMode, paramNum, paramsUsed, lastParams, backupParams, shaderNumParams,
              currentDepth, bottom, uniforms, sink, inBracket, shadow, submitted,
              nCalls, nVerts, nVertsRun, nBrackets, depthBase, nEnds, zLog, attrCall>>

VARIABLES
    \* the encode loop of rlLoadTexture
    swWidth,            \* width
    swHeight,           \* height
    swBpp,              \* bpp, bits per pixel
    swW,                \* w, the tile column of the outer loop
    swH,                \* h, the tile row of the middle loop
    swI,                \* i, the pixel of the inner loop
    swizzled,           \* the output buffer: per byte offset, the offset of the source
                        \* byte stored there, -1 while not written
    swOOB,              \* history: a byte was read or written outside its buffer
    swCount,            \* history: per output byte offset, the number of stores made to it
    swCopied            \* history: the copies made so far, each the pair of the output
                        \* offset written and the source offset read

swzVars == <<swWidth, swHeight, swBpp, swW, swH, swI, swizzled, swOOB, swCount, swCopied>>

vars == <<regVars, matVars, attrVars, swzVars>>

\* What the calls of one subsystem leave alone.
notReg == <<matVars, attrVars, swzVars>>
notMat == <<regVars, attrVars, swzVars>>
notAttr == <<regVars, matVars, swzVars>>
notSwz == <<regVars, matVars, attrVars>>

\* ================================================================ registry
\* A node freshly obtained from RL_MALLOC: id set by the caller, tex not initialised.
NewNode(id) == [id |-> id, tex |-> "uninit"]

Ids(list) == {list[i].id : i \in 1..Len(list)}

\* rlGetPica200Tex: index of the first node whose id matches, 0 for NULL.
RECURSIVE GetScan(_, _, _)
GetScan(list, i, id) ==
    IF i > Len(list) THEN 0
    ELSE IF list[i].id = id THEN i
    ELSE GetScan(list, i + 1, id)

rlGetPica200Tex(list, id) == GetScan(list, 1, id)

\* The while loop of rlNewPica200Tex: curr is node i, prev is node i - 1.
\* On a gap the new node takes curr's place: its next is curr->next, so curr
\* itself is no longer reachable from the head.
RECURSIVE NewScan(_, _, _)
NewScan(list, i, newId) ==
    IF i > Len(list)
    THEN [list |-> Append(list, NewNode(newId)), id |-> newId]
    ELSE IF newId < list[i].id
    THEN [list |-> SubSeq(list, 1, i - 1) \o <<NewNode(newId)>>
                       \o SubSeq(list, i + 1, Len(list)),
          id |-> newId]
    ELSE NewScan(list, i + 1, list[i].id + 1)

\* rlNewPica200Tex: the list after the call and the id returned.
rlNewPica200Tex(list) ==
    IF list = <<>>
    THEN [list |-> <<NewNode(1)>>, id |-> 1]
    ELSE NewScan(list, 2, 2)

\* The while loop of rlRemovePica200Tex: curr is node i; prev is never
\* advanced and stays the head, so a match at node i links the head to node i + 1.
RECURSIVE RemoveScan(_, _, _)
RemoveScan(list, i, id) ==
    IF i > Len(list) THEN list
    ELSE IF list[i].id = id
    THEN <<list[1]>> \o SubSeq(list, i + 1, Len(list))
    ELSE RemoveScan(list, i + 1, id)

\* rlRemovePica200Tex: the list after the call.
rlRemovePica200Tex(list, id) ==
    IF list = <<>> THEN list
    ELSE IF list[1].id = id THEN Tail(list)
    ELSE RemoveScan(list, 2, id)

InitReg ==
    /\ rootTex = <<>>
    /\ live = {}
    /\ regCall = [op |-> "none", id |-> 0, listBefore |-> <<>>, liveBefore |-> {}]

\* A call of rlNewPica200Tex.
Allocate ==
    /\ Len(rootTex) < MaxTex
    /\ LET r == rlNewPica200Tex(rootTex) IN
        /\ rootTex' = r.list
        /\ live' = live \cup {r.id}
        /\ regCall' = [op |-> "Allocate", id |-> r.id,
                       listBefore |-> rootTex, liveBefore |-> live]
    /\ UNCHANGED notReg

\* A call of rlRemovePica200Tex(id).
Remove ==
    \E id \in 1..MaxId :
        /\ rootTex' = rlRemovePica200Tex(rootTex, id)
        /\ live' = live \ {id}
        /\ regCall' = [op |-> "Remove", id |-> id,
                       listBefore |-> rootTex, liveBefore |-> live]
        /\ UNCHANGED notReg

NextReg == Allocate \/ Remove

\* ------------------------------------------------- registry: textures
\* The GPU_TEXCOLOR values rlGetPica200TextureFormat returns for a format it supports.
GpuFormat(format) ==
    CASE format = "PIXELFORMAT_COMPRESSED_ETC1_RGB" -> "GPU_ETC1"
      [] format = "PIXELFORMAT_UNCOMPRESSED_GRAY_ALPHA" -> "GPU_LA8"
      [] format = "PIXELFORMAT_UNCOMPRESSED_GRAYSCALE" -> "GPU_L8"
      [] format = "PIXELFORMAT_UNCOMPRESSED_R4G4B4A4" -> "GPU_RGBA4"
      [] format = "PIXELFORMAT_UNCOMPRESSED_R5G5B5A1" -> "GPU_RGBA5551"
      [] format = "PIXELFORMAT_UNCOMPRESSED_R5G6B5" -> "GPU_RGB565"
      [] format = "PIXELFORMAT_UNCOMPRESSED_R8G8B8" -> "GPU_RGB8"
      [] format = "PIXELFORMAT_UNCOMPRESSED_R8G8B8A8" -> "GPU_RGBA8"

\* The formats the switch maps to a GPU_TEXCOLOR.
SupportedFormats ==
    {"PIXELFORMAT_COMPRESSED_ETC1_RGB", "PIXELFORMAT_UNCOMPRESSED_GRAY_ALPHA",
     "PIXELFORMAT_UNCOMPRESSED_GRAYSCALE", "PIXELFORMAT_UNCOMPRESSED_R4G4B4A4",
     "PIXELFORMAT_UNCOMPRESSED_R5G5B5A1", "PIXELFORMAT_UNCOMPRESSED_R5G6B5",
     "PIXELFORMAT_UNCOMPRESSED_R8G8B8", "PIXELFORMAT_UNCOMPRESSED_R8G8B8A8"}

\* The formats the switch maps to (GPU_TEXCOLOR)-1.
RejectedFormats ==
    {"PIXELFORMAT_COMPRESSED_ASTC_4x4_RGBA", "PIXELFORMAT_COMPRESSED_ASTC_8x8_RGBA",
     "PIXELFORMAT_COMPRESSED_DXT1_RGB", "PIXELFORMAT_COMPRESSED_DXT1_RGBA",
     "PIXELFORMAT_COMPRESSED_DXT3_RGBA", "PIXELFORMAT_COMPRESSED_DXT5_RGBA",
     "PIXELFORMAT_COMPRESSED_ETC2_EAC_RGBA", "PIXELFORMAT_COMPRESSED_ETC2_RGB",
     "PIXELFORMAT_COMPRESSED_PVRT_RGB", "PIXELFORMAT_COMPRESSED_PVRT_RGBA",
     "PIXELFORMAT_UNCOMPRESSED_R32", "PIXELFORMAT_UNCOMPRESSED_R32G32B32",
     "PIXELFORMAT_UNCOMPRESSED_R32G32B32A32"}

\* (GPU_TEXCOLOR)-1
NoTexColor == "(GPU_TEXCOLOR)-1"

\* The GPU_TEXCOLOR values the native library knows.
GpuFormats == {GpuFormat(f) : f \in SupportedFormats}

\* rlGetPica200TextureFormat(format): the values the call can return. For a
\* format the switch has no case for, control reaches the end of the function
\* without a return statement and the caller reads an indeterminate value:
\* (GPU_TEXCOLOR)-1, a GPU_TEXCOLOR the library knows, or one it does not.
rlGetPica200TextureFormat(format) ==
    IF format \in SupportedFormats THEN {GpuFormat(format)}
    ELSE IF format \in RejectedFormats THEN {NoTexColor}
    ELSE {NoTexColor, "GPU_RGBA8", "GPU_L8", "not a GPU_TEXCOLOR"}

\* x & y on naturals.
RECURSIVE BitAnd(_, _)
BitAnd(x, y) ==
    IF x = 0 \/ y = 0 THEN 0
    ELSE (x % 2) * (y % 2) + 2 * BitAnd(x \div 2, y \div 2)

\* checkTexSize without the power-of-two test.
checkTexSize_RangeOnly(size) == ~(size < 8 \/ size > 1024)

\* checkTexSize(size)
checkTexSize(size) ==
    IF size < 8 \/ size > 1024 THEN FALSE
    ELSE IF BitAnd(size, size - 1) # 0 THEN FALSE
    ELSE TRUE

\* C3D_TexInit(tex, width, height, texColor): whether the native library
\* allocates the texture. It refuses the sizes checkTexSize refuses and a
\* format it does not know.
C3D_TexInit(width, height, texColor) ==
    checkTexSize(width) /\ checkTexSize(height) /\ texColor \in GpuFormats

\* The number of nodes that own a native texture.
Natives(list) == Cardinality({i \in 1..Len(list) : list[i].tex = "init"})

\* rlLoadTexture(data, width, height, format, mipmapCount)
rlLoadTexture ==
    \E format \in {"PIXELFORMAT_UNCOMPRESSED_R8G8B8A8", "PIXELFORMAT_COMPRESSED_DXT1_RGB",
                    "not a PixelFormat"},
       width \in {8, 10}, height \in {8, 2048} :
      \E texColor \in rlGetPica200TextureFormat(format) :
        LET r == rlNewPica200Tex(rootTex)
            tex == rlGetPica200Tex(r.list, r.id)
            ok == C3D_TexInit(width, height, texColor)
            call == [op |-> "Load", format |-> format, width |-> width,
                     height |-> height, texColor |-> texColor,
                     listBefore |-> rootTex, liveBefore |-> live]
        IN  /\ IF texColor = NoTexColor
               THEN /\ rootTex' = rootTex
                    /\ live' = live
                    /\ regCall' = call @@ [id |-> 0, native |-> <<>>]
               ELSE IF ~ok
               THEN /\ rootTex' = r.list
                    /\ live' = live
                    /\ regCall' = call @@ [id |-> 0, native |-> <<"C3D_TexInit">>]
               ELSE /\ rootTex' = [r.list EXCEPT ![tex].tex = "init"]
                    /\ live' = live \cup {r.id}
                    /\ regCall' = call @@ [id |-> r.id,
                                           native |-> <<"C3D_TexInit", "C3D_TexUpload">>]
            /\ UNCHANGED notReg

\* rlUnloadTexture(id)
rlUnloadTexture ==
    \E id \in 1..MaxId :
        LET tex == rlGetPica200Tex(rootTex, id)
            call == [op |-> "Unload", id |-> id, found |-> tex # 0,
                     listBefore |-> rootTex, liveBefore |-> live]
        IN  /\ IF tex = 0
               THEN /\ rootTex' = rootTex
                    /\ live' = live
                    /\ regCall' = call @@ [native |-> <<>>]
               ELSE /\ rootTex' = rlRemovePica200Tex(rootTex, id)
                    /\ live' = live \ {id}
                    /\ regCall' = call @@ [native |-> <<"C3D_TexDelete">>]
            /\ UNCHANGED notReg

\* Textures loaded and unloaded, the list at most MaxTex long before a load.
NextTex ==
    \/ (Len(rootTex) < MaxTex /\ rlLoadTexture)
    \/ rlUnloadTexture

\* ------------------------------------------------- registry: properties
\* The smallest positive integer that is not in S.
SmallestUnused(S) ==
    CHOOSE n \in 1..(Cardinality(S) + 1) :
        n \notin S /\ \A m \in 1..(n - 1) : m \in S

\* C1: every Allocate returns the smallest positive integer that is not the
\* id of a live (allocated and not yet removed) node.
C1_AllocateSmallestUnused ==
    regCall.op = "Allocate" => regCall.id = SmallestUnused(regCall.liveBefore)

\* C2: no two nodes of the registry list carry the same id, and Allocate
\* never returns an id that is live at the time of the call.
C2_IdsUniqueWhileLive ==
    /\ \A i, j \in 1..Len(rootTex) : rootTex[i].id = rootTex[j].id => i = j
    /\ regCall.op = "Allocate" =>
          /\ regCall.id \notin regCall.liveBefore
          /\ regCall.id \notin Ids(regCall.listBefore)

\* C3: after Remove(id) of an id that Lookup found before the call, Lookup(id)
\* returns not-found, wherever the node sat in the list.
C3_RemovedIdNotFound ==
    (regCall.op = "Remove" /\ rlGetPica200Tex(regCall.listBefore, regCall.id) # 0)
        => rlGetPica200Tex(rootTex, regCall.id) = 0

\* The powers of two within 8 .. 1024.
PowersOfTwo == {8, 16, 32, 64, 128, 256, 512, 1024}

\* A width or height that is not a power of two within 8 .. 1024.
BadSize(width, height) == width \notin PowersOfTwo \/ height \notin PowersOfTwo

\* C12: rlLoadTexture with a supported format and a width or height that is
\* not a power of two within 8 .. 1024 returns 0 and no node gains a native
\* texture: the only native call is the C3D_TexInit that fails.
C12_BadSizeLoadFails ==
    (/\ regCall.op = "Load"
     /\ regCall.format \in SupportedFormats
     /\ BadSize(regCall.width, regCall.height))
        => /\ regCall.id = 0
           /\ regCall.native = <<"C3D_TexInit">>
           /\ Natives(rootTex) <= Natives(regCall.listBefore)

\* C12 witness: a load of R8G8B8A8 data of width 10, height 8 has returned 0
\* while an earlier texture stays loaded.
C12_Witness ==
    /\ regCall.op = "Load"
    /\ regCall.format = "PIXELFORMAT_UNCOMPRESSED_R8G8B8A8"
    /\ regCall.width = 10 /\ regCall.height = 8
    /\ regCall.id = 0
    /\ Natives(rootTex) = 1

\* C13: rlLoadTexture with a format that is none of the eight supported ones,
\* listed by the switch or not, returns 0, allocates no registry node and
\* makes no native call.
C13_UnsupportedFormatRejected ==
    (regCall.op = "Load" /\ regCall.format \notin SupportedFormats)
        => /\ regCall.id = 0
           /\ rootTex = regCall.listBefore
           /\ regCall.native = <<>>

\* C18: rlUnloadTexture of an id that is not live finds no node, makes no
\* native call and leaves the list as it was; rlGetPica200Tex finds no id
\* that is not live.
C18_UnknownIdIsNoOp ==
    /\ (regCall.op = "Unload" /\ regCall.id \notin regCall.liveBefore)
          => /\ ~regCall.found
             /\ regCall.native = <<>>
             /\ rootTex = regCall.listBefore
    /\ \A id \in 1..MaxId : id \notin live => rlGetPica200Tex(rootTex, id) = 0

\* C19: every id rlGetPica200Tex found just before an Allocate is still found
\* just after it.
C19_AllocateKeepsIds ==
    regCall.op = "Allocate" =>
        \A id \in Ids(regCall.listBefore) : rlGetPica200Tex(rootTex, id) # 0

\* C20: every id other than the argument that rlGetPica200Tex found just
\* before a Remove is still found just after it.
C20_RemoveKeepsOtherIds ==
    regCall.op = "Remove" =>
        \A id \in Ids(regCall.listBefore) \ {regCall.id} :
            rlGetPica200Tex(rootTex, id) # 0

\* C21: the registry list is sorted strictly ascending by id from the head
\* node, and every id is at least 1.
C21_ListStrictlyAscending ==
    /\ \A i \in 1..(Len(rootTex) - 1) : rootTex[i].id < rootTex[i + 1].id
    /\ \A i \in 1..Len(rootTex) : rootTex[i].id >= 1

\* C22: an rlLoadTexture call that returns 0 leaves the registry list as it
\* was before the call, so no id is consumed.
C22_FailedLoadLeavesRegistry ==
    (regCall.op = "Load" /\ regCall.id = 0) =>
        /\ rootTex = regCall.listBefore
        /\ rlNewPica200Tex(rootTex).id = rlNewPica200Tex(regCall.listBefore).id


\* ============================================================ matrix stack
\* A Matrix is kept as the symbolic product of the transforms multiplied into
\* it: a sequence of factors, left factor first; <<>> is the identity. The
\* transform an edit call builds from its arguments is an arbitrary matrix,
\* named by the number of the call: the n-th edit multiplies by the factor n.
MatrixIdentity == <<>>

\* A product with its operands exchanged.
MatrixMultiply_Swapped(left, right) == right \o left

\* raymath MatrixMultiply(left, right), as a symbolic product.
MatrixMultiply(left, right) == left \o right

\* The transform an edit call builds from its arguments (MatrixTranslate(x, y, z),
\* MatrixRotate(axis, angle), MatrixScale, the array of rlMultMatrixf, ...).
BuiltTransform == <<nEdits + 1>>

StackIndex == 0..(MAX_MATRIX_STACK_SIZE - 1)

\* *RLGL.State.currentMatrix, for the pointer value p.
Deref(p) ==
    CASE p = "modelview" -> modelview
      [] p = "projection" -> projection
      [] p = "projectionBottom" -> projectionBottom
      [] p = "transform" -> transform

\* *p = m: the four matrices after the store.
Store(p, m) ==
    /\ modelview' = IF p = "modelview" THEN m ELSE modelview
    /\ projection' = IF p = "projection" THEN m ELSE projection
    /\ projectionBottom' = IF p = "projectionBottom" THEN m ELSE projectionBottom
    /\ transform' = IF p = "transform" THEN m ELSE transform

\* The value stackCounter can hold after a Push at stackCounter =
\* MAX_MATRIX_STACK_SIZE. The store goes to stack[MAX_MATRIX_STACK_SIZE], one
\* past the array, where the struct keeps stackCounter itself: the increment
\* then acts on the old counter (kept in a register) or on the bit pattern of
\* the matrix's first float (0.0f or 1.0f).
OverflowCounters == {MAX_MATRIX_STACK_SIZE + 1, 0 + 1, 1065353216 + 1}

\* The stack array has been written out of bounds; nothing is known of the
\* program from here on and the model follows it no further.
StackCorrupt == stackOOB

InitMat ==
    /\ currentMatrixMode = 0
    /\ currentMatrix = "modelview"
    /\ modelview = MatrixIdentity
    /\ projection = MatrixIdentity
    /\ projectionBottom = MatrixIdentity
    /\ transform = MatrixIdentity
    /\ transformRequired = FALSE
    /\ stack = <<>>
    /\ stackCounter = 0
    /\ stackOOB = FALSE
    /\ overflowLogged = FALSE
    /\ pushedFrom = <<>>
    /\ modeSetInside = FALSE
    /\ openPush = <<>>
    /\ nEdits = 0
    /\ matCall = [op |-> "none"]

matrixUnchanged == <<modelview, projection, projectionBottom, transform>>

\* rlMatrixMode(mode)
rlMatrixMode ==
    \E mode \in {RL_MODELVIEW, RL_PROJECTION, RL_PROJECTION_BOTTOM, RL_TEXTURE} :
        /\ ~StackCorrupt
        /\ currentMatrix' =
              IF mode = RL_PROJECTION THEN "projection"
              ELSE IF mode = RL_PROJECTION_BOTTOM THEN "projectionBottom"
              ELSE IF mode = RL_MODELVIEW THEN "modelview"
              ELSE currentMatrix
        /\ currentMatrixMode' = mode
        /\ modeSetInside' = (modeSetInside \/ stackCounter > 0)
        /\ pushedFrom' = IF stackCounter > 0 THEN <<>> ELSE pushedFrom
        /\ openPush' = [i \in DOMAIN openPush |-> [openPush[i] EXCEPT !.modeSet = TRUE]]
        /\ matCall' = [op |-> "MatrixMode"]
        /\ UNCHANGED <<matrixUnchanged, transformRequired, stack, stackCounter,
                       stackOOB, overflowLogged, nEdits>>
        /\ UNCHANGED notMat

\* A Push that copies the current matrix in every mode.
PushTarget_Current == currentMatrix

\* The pointer rlPushMatrix copies from: redirected to transform in modelview mode.
PushTarget ==
    IF currentMatrixMode = RL_MODELVIEW THEN "transform" ELSE currentMatrix

\* rlPushMatrix()
rlPushMatrix ==
    /\ ~StackCorrupt
    /\ overflowLogged' = (stackCounter >= MAX_MATRIX_STACK_SIZE)
    /\ transformRequired' =
          IF currentMatrixMode = RL_MODELVIEW THEN TRUE ELSE transformRequired
    /\ currentMatrix' = PushTarget
    /\ stackOOB' = (stackCounter \notin StackIndex)
    /\ IF stackCounter \in StackIndex
       THEN /\ stack' = Append(stack, Deref(PushTarget))
            /\ stackCounter' = stackCounter + 1
       ELSE /\ stack' = stack
            /\ stackCounter' \in OverflowCounters
    /\ pushedFrom' = IF modeSetInside THEN pushedFrom
                     ELSE Append(pushedFrom, Deref(currentMatrix))
    /\ openPush' = Append(openPush, [from |-> PushTarget, modeSet |-> FALSE])
    /\ matCall' = [op |-> "Push"]
    /\ UNCHANGED <<matrixUnchanged, currentMatrixMode, modeSetInside, nEdits>>
    /\ UNCHANGED notMat

\* A Pop that restores the bottom frame instead of the top one.
PopFrame_Bottom == stack[1]

\* Matrix mat = RLGL.State.stack[RLGL.State.stackCounter - 1]
PopFrame == stack[Len(stack)]

\* The first if of rlPopMatrix: the counter after it.
PopCounter == IF stackCounter > 0 THEN stackCounter - 1 ELSE stackCounter

\* A second if that is taken only when the first one restored a frame.
PopRedirects_AfterRestore ==
    stackCounter > 0 /\ PopCounter = 0 /\ currentMatrixMode = RL_MODELVIEW

\* The test of the second if of rlPopMatrix.
PopRedirects == PopCounter = 0 /\ currentMatrixMode = RL_MODELVIEW

\* rlPopMatrix()
rlPopMatrix ==
    /\ ~StackCorrupt
    /\ IF stackCounter > 0
       THEN /\ Store(currentMatrix, PopFrame)
            /\ stack' = SubSeq(stack, 1, Len(stack) - 1)
       ELSE UNCHANGED <<matrixUnchanged, stack>>
    /\ stackCounter' = PopCounter
    /\ IF PopRedirects
       THEN /\ currentMatrix' = "modelview"
            /\ transformRequired' = FALSE
       ELSE UNCHANGED <<currentMatrix, transformRequired>>
    /\ pushedFrom' = IF pushedFrom # <<>>
                     THEN SubSeq(pushedFrom, 1, Len(pushedFrom) - 1)
                     ELSE pushedFrom
    /\ modeSetInside' = (modeSetInside /\ PopCounter > 0)
    /\ openPush' = IF openPush # <<>>
                   THEN SubSeq(openPush, 1, Len(openPush) - 1)
                   ELSE openPush
    /\ matCall' = IF stackCounter > 0 /\ ~modeSetInside
                  THEN [op |-> "Pop", matched |-> TRUE,
                        expect |-> pushedFrom[Len(pushedFrom)],
                        target |-> currentMatrix, source |-> openPush[Len(openPush)].from]
                  ELSE IF stackCounter > 0
                  THEN [op |-> "Pop", matched |-> FALSE,
                        target |-> currentMatrix, source |-> openPush[Len(openPush)].from]
                  ELSE [op |-> "Pop", matched |-> FALSE]
    /\ UNCHANGED <<currentMatrixMode, stackOOB, overflowLogged, nEdits>>
    /\ UNCHANGED notMat

\* What every matrix edit leaves alone, and its bookkeeping.
EditFrame(name) ==
    /\ ~StackCorrupt
    /\ nEdits' = nEdits + 1
    /\ matCall' = [op |-> name]
    /\ UNCHANGED <<currentMatrixMode, currentMatrix, transformRequired, stack,
                   stackCounter, stackOOB, overflowLogged, pushedFrom,
                   modeSetInside, openPush>>
    /\ UNCHANGED notMat

\* rlLoadIdentity()
rlLoadIdentity ==
    /\ Store(currentMatrix, MatrixIdentity)
    /\ EditFrame("LoadIdentity")

\* rlTranslatef(x, y, z)
rlTranslatef ==
    /\ Store(currentMatrix, MatrixMultiply(BuiltTransform, Deref(currentMatrix)))
    /\ EditFrame("Translate")

\* rlRotatef(angleDeg, x, y, z)
rlRotatef ==
    /\ Store(currentMatrix, MatrixMultiply(BuiltTransform, Deref(currentMatrix)))
    /\ EditFrame("Rotate")

\* rlScalef(x, y, z)
rlScalef ==
    /\ Store(currentMatrix, MatrixMultiply(BuiltTransform, Deref(currentMatrix)))
    /\ EditFrame("Scale")

\* rlMultMatrixf(matf)
rlMultMatrixf ==
    /\ Store(currentMatrix, MatrixMultiply(Deref(currentMatrix), BuiltTransform))
    /\ EditFrame("Mult")

\* rlFrustum(left, right, bottom, top, znear, zfar)
rlFrustum ==
    /\ Store(currentMatrix, MatrixMultiply(Deref(currentMatrix), BuiltTransform))
    /\ EditFrame("Frustum")

\* rlOrtho(left, right, bottom, top, znear, zfar)
rlOrtho ==
    /\ Store(currentMatrix, MatrixMultiply(Deref(currentMatrix), BuiltTransform))
    /\ EditFrame("Ortho")

\* rlOrthoTilt(left, right, bottom, top, znear, zfar)
rlOrthoTilt ==
    /\ Store(currentMatrix, MatrixMultiply(Deref(currentMatrix), BuiltTransform))
    /\ EditFrame("OrthoTilt")

\* Matrix calls with edits, nesting bounded by MaxDepth, and at most one
\* rlMatrixMode while a Push is open.
NextMat ==
    \/ (~modeSetInside /\ rlMatrixMode)
    \/ (stackCounter < MaxDepth /\ rlPushMatrix)
    \/ rlPopMatrix
    \/ (nEdits < MaxEdits /\ rlLoadIdentity)
    \/ (nEdits < MaxEdits /\ rlTranslatef)
    \/ (nEdits < MaxEdits /\ rlRotatef)
    \/ (nEdits < MaxEdits /\ rlScalef)
    \/ (nEdits < MaxEdits /\ rlMultMatrixf)
    \/ (nEdits < MaxEdits /\ rlFrustum)
    \/ (nEdits < MaxEdits /\ rlOrtho)
    \/ (nEdits < MaxEdits /\ rlOrthoTilt)

\* Push and Pop to any depth, the overflowing Push included. The mode is
\* chosen, and the current matrix edited, only while the stack is empty.
NextStack ==
    \/ (stackCounter = 0 /\ rlMatrixMode)
    \/ rlPushMatrix
    \/ rlPopMatrix
    \/ (stackCounter = 0 /\ nEdits < MaxEdits /\ rlTranslatef)

\* rlMatrixMode at any time, also several times while a Push is open, with
\* Push nested to MaxNest and the edits that take no projection arguments.
NextMode ==
    \/ rlMatrixMode
    \/ (stackCounter < MaxNest /\ rlPushMatrix)
    \/ rlPopMatrix
    \/ (nEdits < MaxEdits /\ rlLoadIdentity)
    \/ (nEdits < MaxEdits /\ rlTranslatef)
    \/ (nEdits < MaxEdits /\ rlRotatef)
    \/ (nEdits < MaxEdits /\ rlScalef)
    \/ (nEdits < MaxEdits /\ rlMultMatrixf)

\* The edits alone, MaxCompose of them, on the matrix current after rlglInit.
NextCompose ==
    \/ (nEdits < MaxCompose /\ rlLoadIdentity)
    \/ (nEdits < MaxCompose /\ rlTranslatef)
    \/ (nEdits < MaxCompose /\ rlRotatef)
    \/ (nEdits < MaxCompose /\ rlScalef)
    \/ (nEdits < MaxCompose /\ rlMultMatrixf)
    \/ (nEdits < MaxCompose /\ rlFrustum)
    \/ (nEdits < MaxCompose /\ rlOrtho)
    \/ (nEdits < MaxCompose /\ rlOrthoTilt)

\* --------------------------------------------- matrix stack: properties
ModesWithMatrix == {RL_MODELVIEW, RL_PROJECTION, RL_PROJECTION_BOTTOM}

\* C4: the stack counter stays within 0 .. MAX_MATRIX_STACK_SIZE and no store
\* into the stack array uses an index outside 0 .. MAX_MATRIX_STACK_SIZE - 1.
C4_StackCounterInRange ==
    /\ stackCounter \in 0..MAX_MATRIX_STACK_SIZE
    /\ ~stackOOB

\* C5: a Push issued when the counter equals the capacity is rejected: it
\* reports the overflow, writes no frame and does not increment the counter.
C5_PushAtCapacityRejected ==
    [][(stackCounter = MAX_MATRIX_STACK_SIZE /\ matCall'.op = "Push") =>
          /\ overflowLogged'
          /\ stackCounter' = stackCounter
          /\ stack' = stack
          /\ ~stackOOB']_vars

\* C6: after a Pop that matches a Push, with no rlMatrixMode call since the
\* outermost open Push, in modelview, projection and projection-bottom mode,
\* the current matrix equals the one that was current just before that Push.
C6_BalancedPopRestores ==
    (matCall.op = "Pop" /\ matCall.matched /\ currentMatrixMode \in ModesWithMatrix)
        => Deref(currentMatrix) = matCall.expect

\* C6 witness: in modelview mode the inner Pop of two nested Pushes has
\* brought back a transform that was edited after the outer Push.
C6_Witness ==
    /\ matCall.op = "Pop" /\ matCall.matched
    /\ currentMatrixMode = RL_MODELVIEW
    /\ stackCounter = 1
    /\ currentMatrix = "transform"
    /\ matCall.expect # MatrixIdentity
    /\ Deref(currentMatrix) = matCall.expect

\* A product whose factors, call numbers, fall from the left end to some
\* factor and rise from it to the right end.
FallsThenRises(m) ==
    \A i \in 2..(Len(m) - 1) : ~(m[i - 1] < m[i] /\ m[i] > m[i + 1])

\* C15: rlTranslatef, rlRotatef and rlScalef set the current matrix to T x
\* current, rlMultMatrixf, rlFrustum and rlOrtho set it to current x T, T being
\* the transform the call builds; so the transforms multiplied on the left
\* stand latest first, those multiplied on the right latest last.
C15_CompositionOrder ==
    [][nEdits' = nEdits + 1 =>
          /\ matCall'.op \in {"Translate", "Rotate", "Scale"} =>
                modelview' = <<nEdits + 1>> \o modelview
          /\ matCall'.op \in {"Mult", "Frustum", "Ortho"} =>
                modelview' = modelview \o <<nEdits + 1>>
          /\ FallsThenRises(modelview')]_vars

\* C15 witness: after LoadIdentity, Translate(A), Mult(B), Scale(C), the
\* calls 1 to 4, the current matrix is C x A x B.
C15_Witness ==
    /\ nEdits = 4
    /\ matCall.op = "Scale"
    /\ currentMatrix = "modelview"
    /\ modelview = <<4, 2, 3>>

\* C32: after rlglInit and any rlMatrixMode, Push and Pop calls the mode is
\* one of modelview, projection, projection-bottom, and the current matrix is
\* projection iff the mode is projection, projectionBottom iff it is
\* projection-bottom, and modelview or transform iff it is modelview.
C32_ModeAgreesWithCurrent ==
    /\ currentMatrixMode \in {RL_MODELVIEW, RL_PROJECTION, RL_PROJECTION_BOTTOM}
    /\ currentMatrix = "projection" <=> currentMatrixMode = RL_PROJECTION
    /\ currentMatrix = "projectionBottom" <=> currentMatrixMode = RL_PROJECTION_BOTTOM
    /\ currentMatrix \in {"modelview", "transform"} <=> currentMatrixMode = RL_MODELVIEW

\* C33: a Pop that restores a frame writes it into the matrix the matching
\* Push copied it from, also when rlMatrixMode was called in between.
C33_PopRestoresIntoSource ==
    (matCall.op = "Pop" /\ "target" \in DOMAIN matCall) =>
        matCall.target = matCall.source

\* C34: a Pop in modelview mode that leaves the counter at 0, the Pop on an
\* empty stack included, leaves the current matrix at modelview and the
\* transform-required flag false; a Pop on an empty stack changes no matrix
\* and leaves the counter at 0.
C34_PopToEmptyRedirects ==
    [][matCall'.op = "Pop" =>
          /\ (currentMatrixMode = RL_MODELVIEW /\ stackCounter' = 0) =>
                (currentMatrix' = "modelview" /\ ~transformRequired')
          /\ stackCounter = 0 =>
                (UNCHANGED <<modelview, projection, projectionBottom, transform>>
                 /\ stackCounter' = 0)]_vars

\* C34 witness: a Pop on the empty stack in modelview mode, made after an
\* edit of the modelview matrix, which it left as it was.
C34_Witness ==
    /\ matCall.op = "Pop"
    /\ "target" \notin DOMAIN matCall
    /\ currentMatrixMode = RL_MODELVIEW
    /\ stackCounter = 0
    /\ currentMatrix = "modelview"
    /\ ~transformRequired
    /\ modelview # MatrixIdentity

\* The innermost open Push was executed in modelview mode and rlMatrixMode was
\* not called since.
InModelviewPush ==
    /\ openPush # <<>>
    /\ ~openPush[Len(openPush)].modeSet
    /\ currentMatrixMode = RL_MODELVIEW

\* C35: between a Push executed in modelview mode and its matching Pop, with
\* no rlMatrixMode in between, no call changes modelview, projection or
\* projectionBottom, and every edit acts on transform.
C35_EditsInPushChangeTransformOnly ==
    [][InModelviewPush =>
          /\ UNCHANGED <<modelview, projection, projectionBottom>>
          /\ nEdits' = nEdits + 1 =>
                /\ currentMatrix = "transform"
                /\ matCall'.op # "LoadIdentity" => transform' # transform]_vars

\* C35 witness: inside a Push executed in modelview mode an edit has changed
\* transform, and modelview, projection and projectionBottom are as they were.
C35_Witness ==
    /\ InModelviewPush
    /\ matCall.op \in {"Translate", "Rotate", "Scale", "Mult"}
    /\ transform # MatrixIdentity
    /\ modelview = MatrixIdentity
    /\ projection = MatrixIdentity
    /\ projectionBottom = MatrixIdentity

\* ====================================================== attribute assembler
Slots == 0..(SHD_MAX_PARAMS - 1)

\* (Vector4){ x, y, z, w }
Vector4(x, y, z, w) == <<x, y, z, w>>

ZeroVector == Vector4(0, 0, 0, 0)

\* A Begin that clears every slot to zero.
BeginDefaults_Zero == [i \in Slots |-> ZeroVector]

\* The slot values rlBegin sets.
BeginDefaults ==
    [i \in Slots |->
        CASE i = SHD_POSITION -> Vector4(0, 0, 0, 0)
          [] i = SHD_TEXCOORD -> Vector4(0, 0, 0, 0)
          [] i = SHD_COLOR -> Vector4(1, 1, 1, 1)
          [] i = SHD_NORMAL -> Vector4(0, 0, 1, 0)]

\* (float)b/255, for the bytes 0 and 255.
ByteToFloat(b) == b \div 255

\* The C3D_Mtx rlBegin fills from a Matrix: row i of the C3D_Mtx holds
\* m(4i) .. m(4i+3), a column of the Matrix, so the upload is the transpose.
C3DMtx(m) == [transposeOf |-> m]

\* The part of the assembler state rlPicaAttrFlush works on.
FlushState == [num |-> paramNum, used |-> paramsUsed, backup |-> backupParams,
               sink |-> sink]

\* The first n values of a slot array, slot 0 first.
FirstSlots(attribs, n) == [i \in 1..n |-> attribs[i - 1]]

\* A send of all SHD_MAX_PARAMS slots instead of the shader's shaderNumParams.
rlSendAttr_AllSlots(st, attribs) ==
    [st EXCEPT !.sink = st.sink \o FirstSlots(attribs, SHD_MAX_PARAMS),
               !.used = [i \in Slots |-> FALSE]]

\* rlSendAttr(attribs)
rlSendAttr(st, attribs) ==
    [st EXCEPT !.sink = st.sink \o FirstSlots(attribs, shaderNumParams),
               !.used = [i \in Slots |-> IF i < shaderNumParams THEN FALSE ELSE st.used[i]]]

\* Phase 2 sending the current set instead of taking the snapshot.
QuadBackup_Send(st) ==
    [st EXCEPT !.sink = st.sink \o FirstSlots(lastParams, shaderNumParams),
               !.used = [i \in Slots |-> IF i < shaderNumParams THEN FALSE ELSE st.used[i]]]

\* Phase 2 clearing the flags without taking the snapshot.
QuadBackup_Stale(st) ==
    [st EXCEPT !.used = [i \in Slots |-> IF i < shaderNumParams THEN FALSE ELSE st.used[i]]]

\* rlBackupParams() and the loop after it, at paramNum = 2.
QuadBackup(st) ==
    [st EXCEPT !.backup = lastParams,
               !.used = [i \in Slots |-> IF i < shaderNumParams THEN FALSE ELSE st.used[i]]]

\* Phase 3 with the two sends exchanged: the snapshot first, then the current set.
QuadSecondTriangle_BackupFirst(st) == rlSendAttr(rlSendAttr(st, st.backup), lastParams)

\* The two sends at paramNum = 3: the current set, then the snapshot.
QuadSecondTriangle(st) == rlSendAttr(rlSendAttr(st, lastParams), st.backup)

\* The RL_QUADS branch without the wrap of paramNum at 4.
QuadFlush_NoWrap(st) ==
    LET after == IF st.num = 2 THEN QuadBackup(st)
                 ELSE IF st.num = 3 THEN QuadSecondTriangle(st)
                 ELSE rlSendAttr(st, lastParams)
    IN  [after EXCEPT !.num = after.num + 1]

\* The RL_QUADS branch of rlPicaAttrFlush.
QuadFlush(st) ==
    LET after == IF st.num = 2 THEN QuadBackup(st)
                 ELSE IF st.num = 3 THEN QuadSecondTriangle(st)
                 ELSE rlSendAttr(st, lastParams)
    IN  [after EXCEPT !.num = (after.num + 1) % 4]

\* rlPicaAttrFlush()
rlPicaAttrFlush(st) ==
    IF paramMode = RL_LINES
    THEN [st EXCEPT !.num = IF st.num = 0 THEN 1 ELSE 0]
    ELSE IF paramMode = RL_QUADS
    THEN QuadFlush(st)
    ELSE rlSendAttr(st, lastParams)

\* The test every setter starts with.
NeedsFlush(slot) == paramsUsed[slot] /\ slot < shaderNumParams

\* The sink's sends in sets of shaderNumParams, first set first.
Sets(snk) ==
    [k \in 1..(Len(snk) \div shaderNumParams) |->
        SubSeq(snk, shaderNumParams * (k - 1) + 1, shaderNumParams * k)]

InitAttr ==
    /\ paramMode = 0
    /\ paramNum = 0
    /\ paramsUsed = [i \in Slots |-> FALSE]
    /\ lastParams = [i \in Slots |-> ZeroVector]
    /\ backupParams = [i \in Slots |-> ZeroVector]
    /\ shaderNumParams = 3
    /\ currentDepth = 0
    /\ bottom = FALSE
    /\ uniforms = [projection |-> "unset", modelView |-> "unset"]
    /\ sink = <<>>
    /\ inBracket = FALSE
    /\ shadow = [i \in Slots |-> ZeroVector]
    /\ submitted = <<>>
    /\ nCalls = 0
    /\ nVerts = 0
    /\ nVertsRun = 0
    /\ nBrackets = 0
    /\ depthBase = 0
    /\ nEnds = 0
    /\ zLog = [prev |-> {}, cur |-> {}, set |-> FALSE]
    /\ attrCall = [op |-> "none"]

\* A Begin that always takes the top screen's projection.
BeginProjection_Top == projection

\* Matrix* pro: the projection rlBegin uploads.
BeginProjection == IF bottom THEN projectionBottom ELSE projection

\* rlBegin(mode)
rlBegin ==
    \E mode \in {RL_LINES, RL_TRIANGLES, RL_QUADS} :
        /\ ~inBracket
        /\ inBracket' = TRUE
        /\ sink' = <<>>
        /\ paramMode' = mode
        /\ paramNum' = 0
        /\ uniforms' = [projection |-> C3DMtx(BeginProjection),
                        modelView |-> C3DMtx(modelview)]
        /\ paramsUsed' = [i \in Slots |-> FALSE]
        /\ lastParams' = BeginDefaults
        /\ shadow' = [i \in Slots |->
                        CASE i = SHD_POSITION -> Vector4(0, 0, 0, 0)
                          [] i = SHD_TEXCOORD -> Vector4(0, 0, 0, 0)
                          [] i = SHD_COLOR -> Vector4(1, 1, 1, 1)
                          [] i = SHD_NORMAL -> Vector4(0, 0, 1, 0)]
        /\ submitted' = <<>>
        /\ nVerts' = 0
        /\ nBrackets' = nBrackets + 1
        /\ zLog' = [prev |-> zLog.cur, cur |-> {}, set |-> FALSE]
        /\ attrCall' = [op |-> "Begin"]
        /\ UNCHANGED <<backupParams, shaderNumParams, currentDepth, bottom, nCalls,
                       nVertsRun, depthBase, nEnds>>
        /\ UNCHANGED notAttr

\* rlSetDepth(depth)
rlSetDepth ==
    \E depth \in {0, 100} :
        /\ currentDepth' = depth
        /\ depthBase' = depth
        /\ nEnds' = 0
        /\ zLog' = [prev |-> {}, cur |-> {}, set |-> TRUE]
        /\ attrCall' = [op |-> "SetDepth"]
        /\ UNCHANGED <<paramMode, paramNum, paramsUsed, lastParams, backupParams,
                       shaderNumParams, bottom, uniforms, sink, inBracket, shadow,
                       submitted, nCalls, nVerts, nVertsRun, nBrackets>>
        /\ UNCHANGED notAttr

\* rlSetCurrentScreen(screen)
rlSetCurrentScreen ==
    \E top \in BOOLEAN :
        /\ bottom' = ~top
        /\ attrCall' = [op |-> "SetCurrentScreen"]
        /\ UNCHANGED <<paramMode, paramNum, paramsUsed, lastParams, backupParams,
                       shaderNumParams, currentDepth, uniforms, sink, inBracket, shadow,
                       submitted, nCalls, nVerts, nVertsRun, nBrackets, depthBase, nEnds, zLog>>
        /\ UNCHANGED notAttr

\* The body every setter shares: flush if the slot is pending and active, then
\* store the value and mark the slot pending.
SetSlot(slot, value) ==
    LET flush == NeedsFlush(slot)
        st == IF flush THEN rlPicaAttrFlush(FlushState) ELSE FlushState
    IN  /\ inBracket
        /\ paramNum' = st.num
        /\ backupParams' = st.backup
        /\ sink' = st.sink
        /\ lastParams' = [lastParams EXCEPT ![slot] = value]
        /\ paramsUsed' = [st.used EXCEPT ![slot] = TRUE]
        /\ shadow' = [shadow EXCEPT ![slot] = value]
        /\ submitted' = IF slot = SHD_POSITION /\ nVerts > 0
                        THEN Append(submitted, FirstSlots(shadow, shaderNumParams))
                        ELSE submitted
        /\ nCalls' = nCalls + 1
        /\ nVerts' = IF slot = SHD_POSITION THEN nVerts + 1 ELSE nVerts
        /\ nVertsRun' = IF slot = SHD_POSITION THEN nVertsRun + 1 ELSE nVertsRun
        /\ attrCall' = [op |-> "Set", slot |-> slot, value |-> value,
                        prevSlot |-> IF "slot" \in DOMAIN attrCall THEN attrCall.slot ELSE -1,
                        flushes |-> IF flush THEN 1 ELSE 0,
                        expect |-> FirstSlots(shadow, shaderNumParams),
                        sent |-> SubSeq(st.sink, Len(sink) + 1, Len(st.sink))]
        /\ UNCHANGED <<paramMode, shaderNumParams, currentDepth, bottom, uniforms,
                       inBracket, nBrackets, depthBase, nEnds>>
        /\ UNCHANGED notAttr

\* What a setter other than rlVertex2f does to the history of depths: nothing.
NoDepthLogged == UNCHANGED zLog

\* rlVertex2i(x, y): the k-th position of a bracket is submitted with x = k.
rlVertex2i == SetSlot(SHD_POSITION, Vector4(nVerts + 1, 0, 0, 0)) /\ NoDepthLogged

\* A z taken from the depth the bracket's rlEnd will leave.
Vertex2fDepth_AfterEnd == currentDepth - 1

\* The z rlVertex2f stores.
Vertex2fDepth == currentDepth

\* rlVertex2f(x, y)
rlVertex2f ==
    /\ SetSlot(SHD_POSITION, Vector4(nVerts + 1, 0, Vertex2fDepth, 0))
    /\ zLog' = IF zLog.set THEN zLog ELSE [zLog EXCEPT !.cur = @ \cup {Vertex2fDepth}]

\* rlVertex3f(x, y, z)
rlVertex3f == SetSlot(SHD_POSITION, Vector4(nVerts + 1, 0, 0, 0)) /\ NoDepthLogged

\* rlTexCoord2f(x, y)
rlTexCoord2f ==
    \E x \in {1} : SetSlot(SHD_TEXCOORD, Vector4(x, 0, 0, 0)) /\ NoDepthLogged

\* rlNormal3f(x, y, z)
rlNormal3f == SetSlot(SHD_NORMAL, Vector4(1, 0, 0, 0)) /\ NoDepthLogged

\* rlColor4ub(r, g, b, a)
rlColor4ub ==
    \E c \in {0} :
        /\ SetSlot(SHD_COLOR,
                   Vector4(ByteToFloat(c), ByteToFloat(c), ByteToFloat(c), ByteToFloat(255)))
        /\ NoDepthLogged

\* rlColor3f(x, y, z)
rlColor3f ==
    \E x \in {0} : SetSlot(SHD_COLOR, Vector4(x, x, x, 0)) /\ NoDepthLogged

\* rlColor4f(x, y, z, w)
rlColor4f ==
    \E x \in {0} : SetSlot(SHD_COLOR, Vector4(x, x, x, 1)) /\ NoDepthLogged

\* An End that takes two steps of depth.
DepthAfterEnd_Twice(depth) == depth - 2

\* An End that leaves the depth where it was.
DepthAfterEnd_Same(depth) == depth

\* currentDepth -= (1.0f/20000.0f), in units of 1.0f/20000.0f
DepthAfterEnd(depth) == depth - 1

\* rlEnd()
rlEnd ==
    LET st == rlPicaAttrFlush(FlushState)
    IN  /\ inBracket
        /\ paramNum' = st.num
        /\ paramsUsed' = st.used
        /\ backupParams' = st.backup
        /\ sink' = st.sink
        /\ inBracket' = FALSE
        /\ currentDepth' = DepthAfterEnd(currentDepth)
        /\ nEnds' = nEnds + 1
        /\ submitted' = IF nVerts > 0
                        THEN Append(submitted, FirstSlots(shadow, shaderNumParams))
                        ELSE submitted
        /\ attrCall' = [op |-> "End",
                        sent |-> SubSeq(st.sink, Len(sink) + 1, Len(st.sink)),
                        native |-> [i \in 1..(Len(st.sink) - Len(sink)) |-> "C3D_ImmSendAttrib"]
                                      \o <<"C3D_ImmDrawEnd">>,
                        depthAtDrawEnd |-> currentDepth]
        /\ UNCHANGED <<paramMode, lastParams, shaderNumParams, bottom, uniforms, shadow,
                       nCalls, nVerts, nVertsRun, nBrackets, depthBase, zLog>>
        /\ UNCHANGED notAttr

\* The setter that came before the last call, within the bracket.
Stage == IF "slot" \in DOMAIN attrCall THEN attrCall.slot ELSE -1

\* Any setter in any order, MaxCalls of them in all.
NextAttr ==
    \/ (nBrackets < MaxBrackets /\ rlBegin)
    \/ rlSetDepth
    \/ (nCalls < MaxCalls /\ rlVertex2i)
    \/ (nCalls < MaxCalls /\ rlVertex2f)
    \/ (nCalls < MaxCalls /\ rlVertex3f)
    \/ (nCalls < MaxCalls /\ rlTexCoord2f)
    \/ (nCalls < MaxCalls /\ rlNormal3f)
    \/ (nCalls < MaxCalls /\ rlColor4ub)
    \/ (nCalls < MaxCalls /\ rlColor3f)
    \/ (nCalls < MaxCalls /\ rlColor4f)
    \/ rlEnd

\* The client submits vertex after vertex, MaxVerts of them in all: a
\* position, then at most one texture coordinate, then at most one colour.
NextVerts ==
    \/ (nBrackets < MaxBrackets /\ rlBegin)
    \/ (nVertsRun < MaxVerts /\ rlVertex2i)
    \/ (nVertsRun < MaxVerts /\ rlVertex2f)
    \/ (nVertsRun < MaxVerts /\ rlVertex3f)
    \/ (Stage = SHD_POSITION /\ rlTexCoord2f)
    \/ (Stage \in {SHD_POSITION, SHD_TEXCOORD} /\ rlColor4ub)
    \/ (Stage \in {SHD_POSITION, SHD_TEXCOORD} /\ rlColor4f)
    \/ rlEnd

\* RL_QUADS brackets fed vertex by vertex, MaxQuadVerts positions in all, each
\* with or without a colour.
NextQuads ==
    \/ (nBrackets < MaxBrackets /\ rlBegin /\ paramMode' = RL_QUADS)
    \/ (nVertsRun < MaxQuadVerts /\ rlVertex3f)
    \/ (Stage = SHD_POSITION /\ rlColor4ub)
    \/ rlEnd

\* Brackets with the depth set and positions submitted, among calls on the
\* matrices and the textures.
NextDepth ==
    \/ (nBrackets < MaxBrackets /\ rlBegin)
    \/ rlEnd
    \/ rlSetDepth
    \/ (nCalls < MaxCalls /\ rlVertex2f)
    \/ (nEdits < MaxEdits /\ rlTranslatef)
    \/ (rootTex = <<>> /\ Allocate)
    \/ (rootTex # <<>> /\ rlUnloadTexture)

\* One bracket opened among calls on the matrices and the screen.
NextDraw ==
    \/ (stackCounter = 0 /\ rlMatrixMode)
    \/ (stackCounter = 0 /\ rlPushMatrix)
    \/ rlPopMatrix
    \/ (nEdits < MaxEdits /\ rlTranslatef)
    \/ rlSetCurrentScreen
    \/ (nBrackets = 0 /\ rlBegin)
    \/ rlEnd

\* ------------------------------------------------ attribute assembler claims
\* C11: with the depth counted in units of 1/20000, after N calls of rlEnd
\* since the latest rlSetDepth (or since the start) the depth is the value it
\* had then minus N, whatever other calls were made in between.
C11_DepthFallsByOnePerEnd == currentDepth = depthBase - nEnds

\* C11 witness: two brackets have ended since rlSetDepth(100), with a matrix
\* edited and a texture id allocated along the way.
C11_Witness ==
    /\ depthBase = 100
    /\ nEnds = 2
    /\ currentDepth = 98
    /\ nEdits >= 1
    /\ rootTex # <<>>

\* The step is a call of rlBegin.
BeginStep == nBrackets' = nBrackets + 1

\* C16: rlBegin uploads as the projection uniform the projection matrix when
\* the flag last set by rlSetCurrentScreen says top screen and the bottom
\* projection matrix when it says bottom screen, and changes neither matrix nor
\* the flag; only rlSetCurrentScreen changes the flag.
C16_ProjectionByScreen ==
    [][/\ BeginStep =>
            /\ uniforms'.projection = C3DMtx(IF bottom THEN projectionBottom ELSE projection)
            /\ UNCHANGED <<projection, projectionBottom, bottom>>
       /\ bottom' # bottom => attrCall'.op = "SetCurrentScreen"]_vars

\* C16 witness: on the bottom screen rlBegin has uploaded the bottom
\* projection, which differs from the top one.
C16_Witness ==
    /\ attrCall.op = "Begin"
    /\ bottom
    /\ projectionBottom # projection
    /\ uniforms.projection = C3DMtx(projectionBottom)

\* C17: rlBegin uploads as the modelView uniform the transform matrix when it
\* is called between a Push in modelview mode and its Pop, the base modelview
\* matrix otherwise.
C17_ModelViewOrTransform ==
    [][BeginStep =>
          uniforms'.modelView =
              C3DMtx(IF transformRequired /\ currentMatrix = "transform"
                     THEN transform ELSE modelview)]_vars

\* rlEnd has just closed an RL_QUADS bracket of exactly four positions.
QuadClosed == attrCall.op = "End" /\ paramMode = RL_QUADS /\ nVerts = 4

\* How many of the sink's sets equal the set s.
TimesSent(s) == Cardinality({j \in 1..Len(Sets(sink)) : Sets(sink)[j] = s})

\* C7: when rlEnd closes an RL_QUADS bracket of four vertices the sink holds
\* exactly four attribute sets, each of the four submitted vertices exactly
\* once, and rlEnd itself made two sends.
C7_QuadSendsFourSets ==
    QuadClosed =>
        /\ Len(sink) = 4 * shaderNumParams
        /\ \A k \in 1..4 : TimesSent(submitted[k]) = 1
        /\ Len(attrCall.sent) = 2 * shaderNumParams

\* C7 witness: a closed RL_QUADS bracket of four (Vertex, Color) pairs, the
\* texture coordinate never set, with four sets in the sink.
C7_Witness ==
    /\ QuadClosed
    /\ \A k \in 1..4 :
          /\ submitted[k][SHD_POSITION + 1][1] = k
          /\ submitted[k][SHD_TEXCOORD + 1] = BeginDefaults[SHD_TEXCOORD]
          /\ submitted[k][SHD_COLOR + 1] = Vector4(0, 0, 0, 1)
    /\ Len(Sets(sink)) = 4

C9_LinesSendsEachVertex ==
    (attrCall.op = "End" /\ paramMode = RL_LINES /\ nVerts >= 1) =>
        /\ Sets(sink) = submitted
        /\ \A i \in Slots : i < shaderNumParams => ~paramsUsed[i]

\* A position has just been submitted right after another one in RL_TRIANGLES.
PositionTwice ==
    /\ attrCall.op = "Set"
    /\ attrCall.slot = SHD_POSITION
    /\ attrCall.prevSlot = SHD_POSITION
    /\ paramMode = RL_TRIANGLES

\* C10: in RL_TRIANGLES a position submitted right after a position flushes
\* exactly once; the set sent holds the first position and the texture
\* coordinate and colour last set in the bracket, or the rlBegin defaults, and
\* not the second position.
C10_PositionTwiceFlushesOnce ==
    PositionTwice =>
        /\ attrCall.flushes = 1
        /\ attrCall.sent = attrCall.expect
        /\ attrCall.sent[SHD_POSITION + 1][1] = nVerts - 1
        /\ attrCall.sent[SHD_POSITION + 1] # attrCall.value
        /\ lastParams[SHD_POSITION] = attrCall.value

\* C10 witness: the flush between two positions has sent a colour set earlier
\* in the bracket together with the default texture coordinate.
C10_Witness ==
    /\ PositionTwice
    /\ attrCall.flushes = 1
    /\ Len(attrCall.sent) = shaderNumParams
    /\ attrCall.sent[SHD_COLOR + 1] # BeginDefaults[SHD_COLOR]
    /\ attrCall.sent[SHD_TEXCOORD + 1] = BeginDefaults[SHD_TEXCOORD]

\* C31: with the depth counted in units of 1/20000, of two brackets issued one
\* after the other with no rlSetDepth from the rlBegin of the first to the
\* latest call, every z rlVertex2f stored in the later one is strictly smaller
\* than every z it stored in the earlier one, and the z values rlVertex2f
\* stored within one bracket are all the same.
C31_LaterBracketIsNearer ==
    /\ \A a \in zLog.prev : \A b \in zLog.cur : b < a
    /\ Cardinality(zLog.prev) <= 1
    /\ Cardinality(zLog.cur) <= 1

\* C31 witness: the second of two brackets has ended, rlVertex2f was called in
\* both, twice in one of them, and rlSetDepth was called before the first.
C31_Witness ==
    /\ attrCall.op = "End"
    /\ zLog.prev # {}
    /\ zLog.cur # {}
    /\ ~zLog.set
    /\ nCalls >= 3
    /\ depthBase = 100

\* ============================================================= encode loop
\* The image sizes and pixel widths the encode loop is run on.
SwzSizes == {8, 16}
SwzBpps == {4, 8, 16, 24, 32}

\* A table that keeps the pixels of a tile in row-major order.
swizzleArr_RowMajor == [n \in 1..64 |-> n - 1]

\* swizzleArr[0 .. 63], entry i at position i + 1.
swizzleArr ==
    << 0,  1,  4,  5, 16, 17, 20, 21,
       2,  3,  6,  7, 18, 19, 22, 23,
       8,  9, 12, 13, 24, 25, 28, 29,
      10, 11, 14, 15, 26, 27, 30, 31,
      32, 33, 36, 37, 48, 49, 52, 53,
      34, 35, 38, 39, 50, 51, 54, 55,
      40, 41, 44, 45, 56, 57, 60, 61,
      42, 43, 46, 47, 58, 59, 62, 63 >>

\* width * height * bpp / 8, the size of the source and of the output buffer.
SwzSize == (swWidth * swHeight * swBpp) \div 8

\* numBytes
SwzNumBytes == IF swBpp \div 8 = 0 THEN 1 ELSE swBpp \div 8

\* The loops have not run to their end.
SwzRunning == swW < swWidth \div 8

\* The source pixel of the loop that is commented out: no vertical flip.
SwzPixelNum_NoFlip == swW * 8 + (swI % 8) + (swH * 8 + (swI \div 8)) * swWidth

\* pixelNum
SwzPixelNum ==
    LET pixelX == swW * 8
        pixelY == swH * 8
    IN  pixelX + (swI % 8) + (swHeight - (pixelY + (swI \div 8)) - 1) * swWidth

\* A copy of two pixels that keeps the order of their bytes (memcpy).
SwzCopies_NoSwap ==
    LET tileNum == swW + (swH * swWidth) \div 8
        src == (SwzPixelNum * swBpp) \div 8
        dest == (tileNum * 64 * swBpp) \div 8 + (swizzleArr[swI + 1] * swBpp) \div 8
    IN  {<<dest + SwzNumBytes * j + k, src + k + SwzNumBytes * j>> :
            j \in 0..1, k \in 0..(SwzNumBytes - 1)}

\* One inner iteration: the output offsets it writes, each with the source
\* offset it reads; the source byte at offset p is the value p.
SwzCopies ==
    LET tileNum == swW + (swH * swWidth) \div 8
        src == (SwzPixelNum * swBpp) \div 8
        dest == (tileNum * 64 * swBpp) \div 8 + (swizzleArr[swI + 1] * swBpp) \div 8
    IN  {<<dest + SwzNumBytes * j + SwzNumBytes - k - 1, src + k + SwzNumBytes * j>> :
            j \in 0..1, k \in 0..(SwzNumBytes - 1)}

\* No texture is being encoded.
InitSwzIdle ==
    /\ swWidth = 0
    /\ swHeight = 0
    /\ swBpp = 0
    /\ swW = 0
    /\ swH = 0
    /\ swI = 0
    /\ swizzled = <<>>
    /\ swOOB = FALSE
    /\ swCount = <<>>
    /\ swCopied = {}

\* The loops are entered with a freshly allocated output buffer.
InitSwz ==
    /\ swWidth \in SwzSizes
    /\ swHeight \in SwzSizes
    /\ swBpp \in SwzBpps
    /\ swW = 0
    /\ swH = 0
    /\ swI = 0
    /\ swizzled = [p \in 0..(SwzSize - 1) |-> -1]
    /\ swOOB = FALSE
    /\ swCount = [p \in 0..(SwzSize - 1) |-> 0]
    /\ swCopied = {}

\* One iteration of the inner loop and the loop steps that follow it.
SwizzleCopy ==
    LET copies == SwzCopies
        inH == swI + 2 >= 64
        inW == inH /\ swH + 1 >= swHeight \div 8
    IN  /\ SwzRunning
        /\ swizzled' = [p \in DOMAIN swizzled |->
                            IF \E c \in copies : c[1] = p
                            THEN (CHOOSE c \in copies : c[1] = p)[2]
                            ELSE swizzled[p]]
        /\ swOOB' = (swOOB \/ \E c \in copies :
                                c[1] \notin 0..(SwzSize - 1) \/ c[2] \notin 0..(SwzSize - 1))
        /\ swCount' = [p \in DOMAIN swCount |->
                            swCount[p] + Cardinality({c \in copies : c[1] = p})]
        /\ swCopied' = swCopied \cup copies
        /\ swI' = IF inH THEN 0 ELSE swI + 2
        /\ swH' = IF inW THEN 0 ELSE IF inH THEN swH + 1 ELSE swH
        /\ swW' = IF inW THEN swW + 1 ELSE swW
        /\ UNCHANGED <<swWidth, swHeight, swBpp>>
        /\ UNCHANGED notSwz

NextSwz == SwizzleCopy


\* ------------------------------------------------- encode loop: properties
\* The Morton (Z-order) index of column x, row y of a tile, x in the even bits.
Morton(x, y) ==
    (x % 2) + 2 * (y % 2) + 4 * ((x \div 2) % 2) + 8 * ((y \div 2) % 2)
        + 16 * ((x \div 4) % 2) + 32 * ((y \div 4) % 2)

\* Where the inverse mapping looks for the source byte at offset p: undo the
\* vertical flip, the tiling and Morton order, and the byte reversal.
InverseIndex(p) ==
    LET B == swBpp \div 8
        pixel == p \div B
        x == pixel % swWidth
        row == swHeight - 1 - (pixel \div swWidth)
        tile == (x \div 8) + (row \div 8) * (swWidth \div 8)
    IN  (tile * 64 + Morton(x % 8, row % 8)) * B + (B - 1 - (p % B))

\* C14: once the encode loop has run over an image whose sides are multiples of
\* 8, with 1 to 4 bytes per pixel, every output byte has been written and the
\* inverse mapping gives back the source: the encoding is a bijection.
C14_SwizzleRoundTrip ==
    (~SwzRunning /\ swWidth > 0 /\ swBpp >= 8) =>
        /\ \A q \in DOMAIN swizzled : swizzled[q] # -1
        /\ \A p \in 0..(SwzSize - 1) : swizzled[InverseIndex(p)] = p
        /\ ~swOOB

\* C14 witness: a 16x16 image of 3 bytes per pixel has been encoded, and
\* its first output byte is not its first source byte.
C14_Witness ==
    /\ ~SwzRunning
    /\ swWidth = 16 /\ swHeight = 16 /\ swBpp = 24
    /\ swizzled[0] # 0
    /\ \A p \in 0..(SwzSize - 1) : swizzled[InverseIndex(p)] = p

\* The first pixel of the byte that holds pixel q: q itself but for the two
\* pixels a byte holds at 4 bits per pixel.
FirstOfByte(q) == ((((q * swBpp) \div 8) * 8) \div swBpp)

\* The output pixel index the position mapping gives the source pixel at
\* column x, row y.
MappedIndex(x, y) ==
    LET row == swHeight - 1 - y
        T == (x \div 8) + (row \div 8) * (swWidth \div 8)
    IN  T * 64 + Morton(x % 8, row % 8)

\* C36: for widths and heights that are multiples of 8, the loop copies the
\* source pixel at column x, row y to the output pixel index T*64 + M, T the
\* row-major tile number of (x, height-1-y) and M the Morton interleave of
\* x mod 8 and (height-1-y) mod 8, x in the even bits (with whole-byte pixels
\* that is where the pixel is when the loop ends); swizzleArr[r*8+c] is that
\* interleave of c and r; and the second pixel of a step lands at
\* swizzleArr[i+1].
C36_PositionMapping ==
    /\ \A r \in 0..7, c \in 0..7 : swizzleArr[r * 8 + c + 1] = Morton(c, r)
    /\ \A h \in 0..31 : swizzleArr[2 * h + 2] = swizzleArr[2 * h + 1] + 1
    /\ (~SwzRunning /\ swWidth > 0) =>
          \A x \in 0..(swWidth - 1), y \in 0..(swHeight - 1) :
              LET n == x + y * swWidth
                  P == MappedIndex(x, y)
              IN  /\ n - FirstOfByte(n) = P - FirstOfByte(P)
                  /\ \E c \in swCopied :
                        /\ (c[2] * 8) \div swBpp = FirstOfByte(n)
                        /\ (c[1] * 8) \div swBpp = FirstOfByte(P)
                  /\ swBpp >= 8 =>
                        \A k \in 0..(SwzNumBytes - 1) :
                            swizzled[P * SwzNumBytes + k] \div SwzNumBytes = n

\* C36 witness: a 16x8 image of 2 bytes per pixel has been encoded; the pixel
\* at column 9 of the top row is in the second tile, at index 64 + 43.
C36_Witness ==
    /\ ~SwzRunning
    /\ swWidth = 16 /\ swHeight = 8 /\ swBpp = 16
    /\ MappedIndex(9, 0) = 107
    /\ swizzled[2 * 107] \div 2 = 9

\* C37: for every format, those of 4 bits per pixel included, the encode loop
\* reads and writes inside the buffers of width*height*bpp/8 bytes and stores
\* to each output byte exactly once.
C37_LoopStaysInBounds ==
    /\ ~swOOB
    /\ (~SwzRunning /\ swWidth > 0) => \A p \in DOMAIN swCount : swCount[p] = 1

\* C38: with 2, 3 and 4 bytes per pixel, output byte k of a pixel is source
\* byte B-1-k of one and the same source pixel.
C38_BytesReversedInPixel ==
    (~SwzRunning /\ swBpp \in {16, 24, 32}) =>
        \A P \in 0..(swWidth * swHeight - 1) :
            \A k \in 0..(SwzNumBytes - 1) :
                LET q == swizzled[P * SwzNumBytes + k]
                IN  /\ q % SwzNumBytes = SwzNumBytes - 1 - k
                    /\ q \div SwzNumBytes = swizzled[P * SwzNumBytes] \div SwzNumBytes

\* C38 witness: a 16x16 image of 4 bytes per pixel has been encoded; the
\* first output pixel holds the bytes 3, 2, 1, 0 of its source pixel.
C38_Witness ==
    /\ ~SwzRunning
    /\ swWidth = 16 /\ swHeight = 16 /\ swBpp = 32
    /\ \A k \in 0..3 : swizzled[k] % 4 = 3 - k
    /\ \A k \in 0..3 : swizzled[k] \div 4 = swizzled[0] \div 4

\* C23: when rlEnd closes a bracket of n >= 1 vertices, in any mode, the sink
\* holds n sets, the set of each submitted vertex exactly once.
C23_EveryVertexSentOnce ==
    (attrCall.op = "End" /\ nVerts >= 1) =>
        /\ Len(Sets(sink)) = nVerts
        /\ \A k \in 1..Len(submitted) : TimesSent(submitted[k]) = 1

\* C24: an rlEnd that follows its rlBegin directly sends nothing.
C24_EmptyBracketSendsNothing ==
    [][(attrCall.op = "Begin" /\ nEnds' = nEnds + 1) =>
          sink' = <<>> /\ attrCall'.sent = <<>>]_vars

\* The step is a call of an attribute setter.
SetStep == nCalls' = nCalls + 1

\* C25: a setter flushes if and only if its slot is pending and below
\* shaderNumParams; after the call the slot holds the new value and is
\* pending; rlNormal3f never flushes; and a flush leaves no other slot below
\* shaderNumParams pending, so at most one flush occurs per vertex.
C25_FlushIffPending ==
    [][SetStep =>
          /\ attrCall'.flushes = 1 <=>
                (paramsUsed[attrCall'.slot] /\ attrCall'.slot < shaderNumParams)
          /\ lastParams'[attrCall'.slot] = attrCall'.value
          /\ paramsUsed'[attrCall'.slot]
          /\ attrCall'.slot = SHD_NORMAL =>
                attrCall'.flushes = 0 /\ sink' = sink /\ paramNum' = paramNum
          /\ attrCall'.flushes = 1 =>
                \A i \in Slots :
                    (i < shaderNumParams /\ i # attrCall'.slot) => ~paramsUsed'[i]]_vars

\* The last call flushed: a setter that found its slot pending, or rlEnd.
Flushed == (attrCall.op = "Set" /\ attrCall.flushes = 1) \/ attrCall.op = "End"

\* C26: in RL_TRIANGLES every flush sends exactly shaderNumParams values,
\* Position, TexCoord, Color in this order, and leaves all four pending flags
\* false (but for the flag of the slot a setter then marks).
C26_TriangleFlushClearsAll ==
    (Flushed /\ paramMode = RL_TRIANGLES) =>
        /\ Len(attrCall.sent) = shaderNumParams
        /\ attrCall.op = "Set" => attrCall.sent = attrCall.expect
        /\ \A i \in Slots :
              (attrCall.op = "Set" => i # attrCall.slot) => ~paramsUsed[i]

\* C27: right after rlBegin paramNum is 0, no slot is pending and the slots
\* hold Position (0,0,0,0), TexCoord (0,0,0,0), Color (1,1,1,1), Normal (0,0,1,0),
\* whatever the earlier brackets left.
C27_BeginResets ==
    attrCall.op = "Begin" =>
        /\ paramNum = 0
        /\ \A i \in Slots : ~paramsUsed[i]
        /\ lastParams[SHD_POSITION] = <<0, 0, 0, 0>>
        /\ lastParams[SHD_TEXCOORD] = <<0, 0, 0, 0>>
        /\ lastParams[SHD_COLOR] = <<1, 1, 1, 1>>
        /\ lastParams[SHD_NORMAL] = <<0, 0, 1, 0>>

\* C27 witness: a second rlBegin after an RL_QUADS bracket of three coloured
\* vertices, which ended at phase 2 with its third vertex in the snapshot.
C27_Witness ==
    /\ attrCall.op = "Begin"
    /\ nBrackets = 2
    /\ nVertsRun = 3
    /\ backupParams[SHD_POSITION] = <<3, 0, 0, 0>>
    /\ backupParams[SHD_COLOR] = <<0, 0, 0, 1>>
    /\ lastParams[SHD_COLOR] = <<1, 1, 1, 1>>

\* The values paramNum takes in a mode.
PhaseRange(mode) ==
    IF mode = RL_QUADS THEN 0..3 ELSE IF mode = RL_LINES THEN 0..1 ELSE {0}

\* paramNum after one flush event.
NextPhase(mode, n) ==
    IF mode = RL_QUADS THEN (n + 1) % 4 ELSE IF mode = RL_LINES THEN 1 - n ELSE n

\* C28: paramNum stays in 0..3 in RL_QUADS, in 0..1 in RL_LINES and at 0 in
\* RL_TRIANGLES; it advances once (cyclically) per flush event, and a setter
\* that does not flush leaves it unchanged.
C28_PhaseCounter ==
    [][/\ paramNum' \in PhaseRange(paramMode')
       /\ SetStep => paramNum' = IF attrCall'.flushes = 1
                                  THEN NextPhase(paramMode, paramNum) ELSE paramNum
       /\ nEnds' = nEnds + 1 => paramNum' = NextPhase(paramMode, paramNum)]_vars

\* C28 witness: the rlEnd of a four-vertex RL_QUADS bracket has taken paramNum
\* from 3 round to 0.
C28_Witness ==
    /\ attrCall.op = "End"
    /\ paramMode = RL_QUADS
    /\ nVerts = 4
    /\ paramNum = 0
    /\ sink # <<>>

\* The last call made the two sends of RL_QUADS phase 3.
SnapshotSent ==
    /\ attrCall.op \in {"Set", "End"}
    /\ paramMode = RL_QUADS
    /\ Len(attrCall.sent) = 2 * shaderNumParams

\* C29: whenever the snapshot is sent it is the set of the third vertex of the
\* current group of four of the same bracket, captured at phase 2 of this bracket.
C29_SnapshotOfThisBracket ==
    SnapshotSent =>
        /\ Len(submitted) >= 4
        /\ Len(submitted) % 4 = 0
        /\ SubSeq(attrCall.sent, shaderNumParams + 1, 2 * shaderNumParams)
              = submitted[Len(submitted) - 1]
        /\ FirstSlots(backupParams, shaderNumParams) = submitted[Len(submitted) - 1]

\* C29 witness: a bracket of three coloured vertices left its snapshot unsent;
\* the next bracket, of four vertices, the third without a colour, has sent
\* its own snapshot.
C29_Witness ==
    /\ SnapshotSent
    /\ nBrackets = 2
    /\ nVertsRun = 7
    /\ nVerts = 4
    /\ backupParams[SHD_POSITION] = <<3, 0, 0, 0>>
    /\ backupParams[SHD_COLOR] = <<1, 1, 1, 1>>

Init == InitReg /\ InitMat /\ InitAttr /\ InitSwzIdle

\* The state when the encode loop of rlLoadTexture is entered.
InitEncode == InitReg /\ InitMat /\ InitAttr /\ InitSwz

Next == NextMode \/ NextReg \/ NextTex \/ NextSwz \/ NextMat \/ NextCompose \/ NextStack \/ NextAttr \/ NextVerts \/ NextQuads \/ NextDepth \/ NextDraw \/ rlSetCurrentScreen

Spec == Init /\ [][Next]_vars

\* The texture registry alone.
SpecReg == Init /\ [][NextReg]_vars

\* Textures loaded and unloaded.
SpecTex == Init /\ [][NextTex]_vars

\* The encode loop of rlLoadTexture.
SpecSwz == InitEncode /\ [][NextSwz]_vars

\* The matrix stack alone.
SpecMat == Init /\ [][NextMat]_vars

\* The matrix edits alone.
SpecCompose == Init /\ [][NextCompose]_vars

\* The matrix stack with the mode changed at any time.
SpecMode == Init /\ [][NextMode]_vars

\* Depth, brackets and everything else.
SpecDepth == Init /\ [][NextDepth]_vars

\* Brackets among matrix and screen calls.
SpecDraw == Init /\ [][NextDraw]_vars

\* RL_QUADS brackets of up to MaxQuadVerts vertices.
SpecQuads == Init /\ [][NextQuads]_vars

\* The matrix stack up to and past its capacity.
SpecStack == Init /\ [][NextStack]_vars

\* The attribute assembler, setters in any order.
SpecAttr == Init /\ [][NextAttr]_vars

\* The attribute assembler, fed vertex by vertex.
SpecVerts == Init /\ [][NextVerts]_vars

=============================================================================
